---- MODULE Spec2Model ----
(***************************************************************************)
(* Journal_app: the in-memory journal core (lib/journal.ts) and the chat   *)
(* route handler (app/api/chat/route.ts) as a state machine.               *)
(*                                                                         *)
(* Text is modelled character by character: a JavaScript string is a TLA+  *)
(* string, read with Len, SubSeq and \o.  TLA+ strings are ASCII, so the   *)
(* character "~" stands for the curly apostrophe U+2019.                   *)
(***************************************************************************)
EXTENDS Integers, Sequences, FiniteSets, TLC

(***************************************************************************)
(* Characters and character classes of the regular expressions            *)
(***************************************************************************)
CharAt(s, i) == SubSeq(s, i, i)

CharsOf(s) == { CharAt(s, i) : i \in 1..Len(s) }

LowerLetters == "abcdefghijklmnopqrstuvwxyz"

UpperLetters == "ABCDEFGHIJKLMNOPQRSTUVWXYZ"

DigitChars == "0123456789"

\* \s, restricted to the white space a TLA+ string can hold
SpaceChars == {" ", "\t", "\n", "\r"}

\* ‘ ’ “ ”, of which "~" is the representative
SmartQuotes == {"~"}

\* \w
WordChars == CharsOf(LowerLetters) \cup CharsOf(UpperLetters) \cup CharsOf(DigitChars) \cup {"_"}

\* [a-z0-9\s,&\-']
NormKeep == CharsOf(LowerLetters) \cup CharsOf(DigitChars) \cup SpaceChars \cup {",", "&", "-", "'"}

\* [a-z0-9\-']
TokenKeep == CharsOf(LowerLetters) \cup CharsOf(DigitChars) \cup {"-", "'"}

\* [A-Z]
UpperChars == CharsOf(UpperLetters)

\* the lower-case letter of each upper-case letter
LowerOf == [ c \in UpperChars |->
             CharAt(LowerLetters, CHOOSE i \in 1..26 : CharAt(UpperLetters, i) = c) ]

toLowerChar(c) == IF c \in UpperChars THEN LowerOf[c] ELSE c

RECURSIVE toLowerCase(_)
toLowerCase(s) ==
  IF s = "" THEN "" ELSE toLowerChar(Head(s)) \o toLowerCase(Tail(s))

RECURSIVE trimStart(_)
trimStart(s) ==
  IF s # "" /\ Head(s) \in SpaceChars THEN trimStart(Tail(s)) ELSE s

RECURSIVE trimEnd(_)
trimEnd(s) ==
  IF s # "" /\ CharAt(s, Len(s)) \in SpaceChars
  THEN trimEnd(SubSeq(s, 1, Len(s) - 1))
  ELSE s

trim(s) == trimEnd(trimStart(s))

endsWith(s, p) == Len(s) >= Len(p) /\ SubSeq(s, Len(s) - Len(p) + 1, Len(s)) = p

\* s.includes(p)
includes(s, p) == \E i \in 1..(Len(s) - Len(p) + 1) : SubSeq(s, i, i + Len(p) - 1) = p

\* s.replace(/[class]/g, r) for a class given by membership in keep
RECURSIVE replaceOutside(_, _, _)
replaceOutside(s, keep, r) ==
  IF s = "" THEN ""
  ELSE (IF Head(s) \in keep THEN Head(s) ELSE r) \o replaceOutside(Tail(s), keep, r)

RECURSIVE replaceInside(_, _, _)
replaceInside(s, cls, r) ==
  IF s = "" THEN ""
  ELSE (IF Head(s) \in cls THEN r ELSE Head(s)) \o replaceInside(Tail(s), cls, r)

\* s.replace(/\s+/g, " ")
RECURSIVE collapseSpaces(_)
collapseSpaces(s) ==
  IF s = "" THEN ""
  ELSE IF Head(s) \in SpaceChars THEN " " \o collapseSpaces(trimStart(s))
  ELSE Head(s) \o collapseSpaces(Tail(s))

\* s.split(/[seps]+/): the pieces between runs of separators, empty pieces
\* at the two ends included
RECURSIVE splitRuns(_, _, _)
splitRuns(s, seps, cur) ==
  IF s = "" THEN <<cur>>
  ELSE IF Head(s) \in seps
       THEN IF Len(s) > 1 /\ CharAt(s, 2) \in seps
            THEN splitRuns(Tail(s), seps, cur)
            ELSE <<cur>> \o splitRuns(Tail(s), seps, "")
       ELSE splitRuns(Tail(s), seps, cur \o Head(s))

splitOn(s, seps) == splitRuns(s, seps, "")

\* xs.filter(Boolean)
RECURSIVE filterBoolean(_)
filterBoolean(xs) ==
  IF xs = <<>> THEN <<>>
  ELSE (IF Head(xs) # "" THEN <<Head(xs)>> ELSE <<>>) \o filterBoolean(Tail(xs))

\* Array.from(new Set(xs)) and the seen/out loops: first occurrences, in order
RECURSIVE uniqueInOrder(_, _)
uniqueInOrder(xs, out) ==
  IF xs = <<>> THEN out
  ELSE uniqueInOrder(Tail(xs),
         IF \E i \in 1..Len(out) : out[i] = Head(xs) THEN out ELSE Append(out, Head(xs)))

Range(xs) == { xs[i] : i \in 1..Len(xs) }

(***************************************************************************)
(* JavaScript values that reach the core as text: a string or null         *)
(***************************************************************************)
Str(s) == [t |-> "string", v |-> s]

Null == [t |-> "null", v |-> ""]

\* String(s || "")
StringOrEmpty(x) == IF x.t = "null" THEN "" ELSE x.v

(***************************************************************************)
(* lib/journal.ts helpers                                                  *)
(***************************************************************************)
STOPWORDS ==
  { "the", "a", "an", "and", "or", "to", "of", "in", "on", "at", "for", "with",
    "that", "this", "it", "is", "are", "be", "i", "you", "we", "they", "me",
    "my", "your", "our", "have", "has", "had", "will", "please", "next", "time",
    "from", "as", "by", "about", "so", "but" }

COMMON_VERBS ==
  { "add", "buy", "bought", "buying", "remember", "remind", "shopping", "list",
    "show", "need" }

\* trim() called first in the chain, in the place of last
normalizeTextTrimFirst(x) ==
  collapseSpaces(replaceOutside(
        replaceInside(toLowerCase(trim(StringOrEmpty(x))), SmartQuotes, "'"),
        NormKeep, " "))

normalizeText(x) ==
  trim(collapseSpaces(replaceOutside(
        replaceInside(toLowerCase(StringOrEmpty(x)), SmartQuotes, "'"),
        NormKeep, " ")))

stem(word) ==
  IF word = "" THEN word
  ELSE IF Len(word) > 4 /\ endsWith(word, "ies") THEN SubSeq(word, 1, Len(word) - 3) \o "y"
  ELSE IF Len(word) > 3 /\ endsWith(word, "es") THEN SubSeq(word, 1, Len(word) - 2)
  ELSE IF Len(word) > 2 /\ endsWith(word, "s") THEN SubSeq(word, 1, Len(word) - 1)
  ELSE word

RECURSIVE keptKeywords(_)
keptKeywords(tokens) ==
  IF tokens = <<>> THEN <<>>
  ELSE LET t == trim(Head(tokens))
       IN (IF t \notin STOPWORDS /\ t \notin COMMON_VERBS /\ Len(stem(t)) > 1
           THEN <<stem(t)>> ELSE <<>>) \o keptKeywords(Tail(tokens))

extractKeywords(text) ==
  LET s == normalizeText(text)
      tokens == filterBoolean(splitOn(s, SpaceChars \cup {","}))
  IN uniqueInOrder(keptKeywords(tokens), <<>>)

(***************************************************************************)
(* Regular-expression matching on normalized text                          *)
(***************************************************************************)
Min(S) == CHOOSE m \in S : \A n \in S : m <= n

\* the literal p occurs in s at position i
litAt(s, i, p) == i >= 1 /\ i + Len(p) - 1 <= Len(s) /\ SubSeq(s, i, i + Len(p) - 1) = p

\* length of the run of white space that starts at position i
RECURSIVE spaceRun(_, _)
spaceRun(s, i) ==
  IF i <= Len(s) /\ CharAt(s, i) \in SpaceChars THEN 1 + spaceRun(s, i + 1) ELSE 0

\* \b at the gap before position i
wordBoundary(s, i) ==
  LET before == i > 1 /\ i - 1 <= Len(s) /\ CharAt(s, i - 1) \in WordChars
      after == i >= 1 /\ i <= Len(s) /\ CharAt(s, i) \in WordChars
  IN before # after

\* /\b(w1|w2|...)\b/.test(s)
hasWord(s, words) ==
  \E w \in words : \E i \in 1..Len(s) :
    litAt(s, i, w) /\ wordBoundary(s, i) /\ wordBoundary(s, i + Len(w))

\* /(?:w1|w2|...)/.test(s)
hasSubstring(s, words) == \E w \in words : includes(s, w)

\* (?:a1|a2|...) tried at position i, alternatives in order: the positions
\* just after each alternative that matches there
altEnds(s, i, alts) ==
  { i + Len(alts[k]) : k \in { n \in 1..Len(alts) : litAt(s, i, alts[n]) } }

(***************************************************************************)
(* fallbackExtractItems                                                    *)
(***************************************************************************)
VerbAlts == <<"add", "put", "buy", "need", "remember", "remind me to", "don't forget to", "note to">>

PrepAlts == {"to", "in", "on", "at", "for", "my", "the", "from"}

LabelAlts == <<"shopping list:", "shopping:", "to-do list:", "todo list:", "todo:">>

AlsoAlts == <<"also", "and also", "plus">>

ListWords == {"to-do", "todo", "shopping", "my", "the", "list"}

\* (?:\s+(?:to|in|on|at|for|my|the|from)\b|$) matches at position j
chunkStopsAt(s, j) ==
  \/ j = Len(s) + 1
  \/ /\ spaceRun(s, j) > 0
     /\ \E p \in PrepAlts :
          /\ litAt(s, j + spaceRun(s, j), p)
          /\ wordBoundary(s, j + spaceRun(s, j) + Len(p))

\* pattern 1: verb \s+ (.*?) stop; the match object as <<m[1]>>, or <<>>
matchVerbChunk(s) ==
  LET starts == { i \in 1..Len(s) :
                    \E e \in altEnds(s, i, VerbAlts) : spaceRun(s, e) > 0 }
  IN IF starts = {} THEN <<>>
     ELSE LET i == Min(starts)
              e == Min({ x \in altEnds(s, i, VerbAlts) : spaceRun(s, x) > 0 })
              from == e + spaceRun(s, e)
              to == Min({ j \in from..(Len(s) + 1) : chunkStopsAt(s, j) })
          IN <<SubSeq(s, from, to - 1)>>

\* prefix \s{least,} (.+)$ : the rest of the text after the first prefix
\* that is followed by enough white space and at least one character
restAfterPrefix(s, alts, least) ==
  LET ok(e) == /\ spaceRun(s, e) >= least
               /\ (e + spaceRun(s, e) <= Len(s) \/ spaceRun(s, e) > least)
      starts == { i \in 1..Len(s) : \E e \in altEnds(s, i, alts) : ok(e) }
  IN IF starts = {} THEN <<>>
     ELSE LET i == Min(starts)
              e == Min({ x \in altEnds(s, i, alts) : ok(x) })
              from == IF e + spaceRun(s, e) <= Len(s)
                      THEN e + spaceRun(s, e) ELSE Len(s)
          IN <<SubSeq(s, from, Len(s))>>

\* pattern 2
matchLabelChunk(s) == restAfterPrefix(s, LabelAlts, 0)

\* pattern 3
matchAlsoChunk(s) == restAfterPrefix(s, AlsoAlts, 1)

\* chunk.replace(/\b(to-?do|todo|shopping|...|my|the|list)\b/gi, " ")
RECURSIVE stripListWords(_, _)
stripListWords(s, i) ==
  IF i > Len(s) THEN ""
  ELSE LET hits == { w \in ListWords :
                       litAt(s, i, w) /\ wordBoundary(s, i) /\ wordBoundary(s, i + Len(w)) }
       IN IF hits = {} THEN CharAt(s, i) \o stripListWords(s, i + 1)
          ELSE LET w == CHOOSE x \in hits : TRUE
               IN " " \o stripListWords(s, i + Len(w))

\* ['"`]: the backquote is not a character of a TLA+ string, and normalized
\* text holds neither it nor the double quote
QuoteChars == {"'", "\""}

cleanChunk(c) ==
  trim(collapseSpaces(replaceInside(stripListWords(c, 1), QuoteChars, "")))

\* /\s*,\s*|\s+and\s+/ tried at position i: the position after the match, or 0
separatorEnd(s, i) ==
  LET k == spaceRun(s, i)
  IN IF litAt(s, i + k, ",") THEN i + k + 1 + spaceRun(s, i + k + 1)
     ELSE IF k > 0 /\ litAt(s, i + k, "and") /\ spaceRun(s, i + k + 3) > 0
          THEN i + k + 3 + spaceRun(s, i + k + 3)
          ELSE 0

\* chunk.split(/\s*,\s*|\s+and\s+/i)
RECURSIVE splitParts(_, _, _)
splitParts(s, i, cur) ==
  IF i > Len(s) THEN <<cur>>
  ELSE IF separatorEnd(s, i) > 0
       THEN <<cur>> \o splitParts(s, separatorEnd(s, i), "")
       ELSE splitParts(s, i + 1, cur \o CharAt(s, i))

RECURSIVE trimAll(_)
trimAll(xs) == IF xs = <<>> THEN <<>> ELSE <<trim(Head(xs))>> \o trimAll(Tail(xs))

\* one candidate: strip stray punctuation, stem, lowercase
cleanPart(p) ==
  toLowerCase(stem(trim(replaceOutside(p,
      TokenKeep \cup SpaceChars \cup UpperChars, ""))))

\* the filter without its stopword and common-verb tests
RECURSIVE chunkItemsUnfiltered(_)
chunkItemsUnfiltered(parts) ==
  IF parts = <<>> THEN <<>>
  ELSE LET p == cleanPart(Head(parts))
       IN (IF Len(p) > 1 THEN <<p>> ELSE <<>>) \o chunkItemsUnfiltered(Tail(parts))

RECURSIVE chunkItems(_)
chunkItems(parts) ==
  IF parts = <<>> THEN <<>>
  ELSE LET p == cleanPart(Head(parts))
       IN (IF Len(p) > 1 /\ p \notin COMMON_VERBS /\ p \notin STOPWORDS
           THEN <<p>> ELSE <<>>) \o chunkItems(Tail(parts))

\* the body of the loop over the patterns, for one match object
itemsOfMatch(m) ==
  IF m = <<>> \/ m[1] = "" THEN <<>>
  ELSE chunkItems(filterBoolean(trimAll(splitParts(cleanChunk(m[1]), 1, ""))))

TokenScanMinLen == 2

TokenScanCap == 4

RECURSIVE scanCandidates(_)
scanCandidates(tokens) ==
  IF tokens = <<>> THEN <<>>
  ELSE LET t == stem(replaceOutside(Head(tokens), TokenKeep, ""))
       IN (IF Len(t) > TokenScanMinLen /\ t \notin COMMON_VERBS /\ t \notin STOPWORDS
           THEN <<t>> ELSE <<>>) \o scanCandidates(Tail(tokens))

\* for (const c of candidates) { push if new; if (uniq.length >= 4) break }
RECURSIVE capUnique(_, _)
capUnique(cands, uniq) ==
  IF cands = <<>> THEN uniq
  ELSE LET u == IF Head(cands) \in Range(uniq) THEN uniq ELSE Append(uniq, Head(cands))
       IN IF Len(u) >= TokenScanCap THEN u ELSE capUnique(Tail(cands), u)

RECURSIVE lowerAll(_)
lowerAll(xs) == IF xs = <<>> THEN <<>> ELSE <<toLowerCase(Head(xs))>> \o lowerAll(Tail(xs))

tokenScan(s) ==
  lowerAll(capUnique(scanCandidates(
      filterBoolean(trimAll(splitOn(s, SpaceChars \cup {","})))), <<>>))

fallbackExtractItems(content) ==
  LET s == normalizeText(content)
      i1 == itemsOfMatch(matchVerbChunk(s))
      i2 == itemsOfMatch(matchLabelChunk(s))
      i3 == itemsOfMatch(matchAlsoChunk(s))
  IN IF Len(i1) > 0 THEN uniqueInOrder(i1, <<>>)
     ELSE IF Len(i2) > 0 THEN uniqueInOrder(i2, <<>>)
     ELSE IF Len(i3) > 0 THEN uniqueInOrder(i3, <<>>)
     ELSE tokenScan(s)

(***************************************************************************)
(* fallbackExtractItems of the second copy of lib/journal.ts               *)
(***************************************************************************)
\* [a-z0-9 ,&and\-'] under the i flag
CaptureKeep ==
  CharsOf(LowerLetters) \cup UpperChars \cup CharsOf(DigitChars) \cup {" ", ",", "&", "-", "'"}

\* a group of a pattern's prefix: its literals in the order of the
\* alternation, and whether the group is followed by ?
Lit(w) == [lits |-> <<w>>, opt |-> FALSE]

OneOf(ws) == [lits |-> ws, opt |-> FALSE]

Opt(ws) == [lits |-> ws, opt |-> TRUE]

\* add(?: to)?(?: my)?(?: (?:shopping|to-?do|todo) list)?|add
AddAltsV2 ==
  << <<Lit("add"), Opt(<<" to">>), Opt(<<" my">>),
       Opt(<<" shopping list", " to-do list", " todo list">>)>>,
     <<Lit("add")>> >>

\* buy|buying|bought
BuyAltsV2 == << <<OneOf(<<"buy", "buying", "bought">>)>> >>

\* don't forget(?: to)?|do not forget(?: to)?|remember(?: to)?|remind me to
ForgetAltsV2 ==
  << <<Lit("don't forget"), Opt(<<" to">>)>>,
     <<Lit("do not forget"), Opt(<<" to">>)>>,
     <<Lit("remember"), Opt(<<" to">>)>>,
     <<Lit("remind me to")>> >>

\* also|and also|plus
AlsoAltsV2 == << <<OneOf(AlsoAlts)>> >>

\* shopping list:|shopping:|to-?do list:|todo:
LabelAltsV2 == << <<OneOf(LabelAlts)>> >>

\* the positions just after a sequence of groups tried at position i, in the
\* order in which the matcher tries them: a literal of the group before the
\* next literal, a group taken before the group skipped
RECURSIVE groupsEnds(_, _, _)
RECURSIVE litsEnds(_, _, _, _)
litsEnds(s, i, lits, rest) ==
  IF lits = <<>> THEN <<>>
  ELSE (IF litAt(s, i, Head(lits)) THEN groupsEnds(s, i + Len(Head(lits)), rest) ELSE <<>>)
       \o litsEnds(s, i, Tail(lits), rest)

groupsEnds(s, i, gs) ==
  IF gs = <<>> THEN <<i>>
  ELSE litsEnds(s, i, Head(gs).lits, Tail(gs))
       \o (IF Head(gs).opt THEN groupsEnds(s, i, Tail(gs)) ELSE <<>>)

RECURSIVE prefixEnds(_, _, _)
prefixEnds(s, i, alts) ==
  IF alts = <<>> THEN <<>>
  ELSE groupsEnds(s, i, Head(alts)) \o prefixEnds(s, i, Tail(alts))

\* length of the run of characters of the capture class that starts at i
RECURSIVE classRun(_, _)
classRun(s, i) ==
  IF i <= Len(s) /\ CharAt(s, i) \in CaptureKeep THEN 1 + classRun(s, i + 1) ELSE 0

\* \s+ (or \s*) taking j white-space characters at position e, j going down
\* to least, then ([...]+): the capture as <<m[1]>>, or <<>>
RECURSIVE captureAfter(_, _, _, _)
captureAfter(s, e, least, j) ==
  IF j < least THEN <<>>
  ELSE IF classRun(s, e + j) > 0
       THEN <<SubSeq(s, e + j, e + j + classRun(s, e + j) - 1)>>
       ELSE captureAfter(s, e, least, j - 1)

RECURSIVE firstCapture(_, _, _)
firstCapture(s, ends, least) ==
  IF ends = <<>> THEN <<>>
  ELSE LET m == captureAfter(s, Head(ends), least, spaceRun(s, Head(ends)))
       IN IF m # <<>> THEN m ELSE firstCapture(s, Tail(ends), least)

\* s.match(pat) for a pattern prefix \s+ ([...]+): the leftmost match
matchPrefixChunk(s, alts, least) ==
  LET starts == { i \in 1..Len(s) : firstCapture(s, prefixEnds(s, i, alts), least) # <<>> }
  IN IF starts = {} THEN <<>>
     ELSE firstCapture(s, prefixEnds(s, Min(starts), alts), least)

\* chunk.split(/,| and | & /)
RECURSIVE splitPartsV2(_, _, _)
splitPartsV2(s, i, cur) ==
  IF i > Len(s) THEN <<cur>>
  ELSE IF litAt(s, i, ",") THEN <<cur>> \o splitPartsV2(s, i + 1, "")
  ELSE IF litAt(s, i, " and ") THEN <<cur>> \o splitPartsV2(s, i + 5, "")
  ELSE IF litAt(s, i, " & ") THEN <<cur>> \o splitPartsV2(s, i + 3, "")
  ELSE splitPartsV2(s, i + 1, cur \o CharAt(s, i))

\* t.trim().replace(/[^a-z0-9\s\-']/g, "")
cleanPartV2(t) == replaceOutside(trim(t), TokenKeep \cup SpaceChars, "")

RECURSIVE cleanAllV2(_)
cleanAllV2(xs) ==
  IF xs = <<>> THEN <<>> ELSE <<cleanPartV2(Head(xs))>> \o cleanAllV2(Tail(xs))

RECURSIVE chunkItemsV2(_)
chunkItemsV2(parts) ==
  IF parts = <<>> THEN <<>>
  ELSE LET t == stem(Head(parts))
       IN (IF Len(t) > 1 /\ t \notin COMMON_VERBS /\ t \notin STOPWORDS
           THEN <<toLowerCase(t)>> ELSE <<>>) \o chunkItemsV2(Tail(parts))

itemsOfMatchV2(m) ==
  IF m = <<>> \/ m[1] = "" THEN <<>>
  ELSE chunkItemsV2(filterBoolean(cleanAllV2(splitPartsV2(m[1], 1, ""))))

TokenScanMinLenV2 == 1

TokenScanCapV2 == 6

RECURSIVE scanCandidatesV2(_)
scanCandidatesV2(tokens) ==
  IF tokens = <<>> THEN <<>>
  ELSE LET t == stem(replaceOutside(Head(tokens), TokenKeep, ""))
       IN (IF Len(t) > TokenScanMinLenV2 /\ t \notin COMMON_VERBS /\ t \notin STOPWORDS
           THEN <<t>> ELSE <<>>) \o scanCandidatesV2(Tail(tokens))

RECURSIVE capUniqueV2(_, _)
capUniqueV2(cands, uniq) ==
  IF cands = <<>> THEN uniq
  ELSE LET u == IF Head(cands) \in Range(uniq) THEN uniq ELSE Append(uniq, Head(cands))
       IN IF Len(u) >= TokenScanCapV2 THEN u ELSE capUniqueV2(Tail(cands), u)

tokenScanV2(s) ==
  lowerAll(capUniqueV2(scanCandidatesV2(
      filterBoolean(trimAll(splitOn(s, SpaceChars \cup {","})))), <<>>))

RECURSIVE firstItemsV2(_, _)
firstItemsV2(s, pats) ==
  IF pats = <<>> THEN <<>>
  ELSE LET items == itemsOfMatchV2(matchPrefixChunk(s, Head(pats).alts, Head(pats).least))
       IN IF Len(items) > 0 THEN uniqueInOrder(items, <<>>) ELSE firstItemsV2(s, Tail(pats))

PatternsV2 ==
  << [alts |-> AddAltsV2, least |-> 1],
     [alts |-> BuyAltsV2, least |-> 1],
     [alts |-> ForgetAltsV2, least |-> 1],
     [alts |-> AlsoAltsV2, least |-> 1],
     [alts |-> LabelAltsV2, least |-> 0] >>

fallbackExtractItemsV2(content) ==
  LET s == normalizeText(content)
      items == firstItemsV2(s, PatternsV2)
  IN IF Len(items) > 0 THEN items ELSE tokenScanV2(s)

(***************************************************************************)
(* Entry store and query engine (lib/journal.ts core exports)              *)
(***************************************************************************)
\* entries.push(e) in the place of unshift
unshiftAtEnd(es, e) == Append(es, e)

\* entries[0] = e in the place of unshift
unshiftOverwrite(es, e) == <<e>> \o (IF es = <<>> THEN <<>> ELSE Tail(es))

\* an entry with the id of the new one is dropped from the store first
unshiftReplacingId(es, e) == <<e>> \o SelectSeq(es, LAMBDA x : x.id # e.id)

\* entries.unshift(e)
unshift(es, e) == <<e>> \o es

isShoppingQueryInternal(q) ==
  IF StringOrEmpty(q) = "" THEN FALSE
  ELSE hasWord(normalizeText(q),
         { "supermarket", "grocery", "shopping list", "grocery list", "to-do list",
           "todo list", "todo", "what should i buy", "what is my shopping list",
           "what is my to-do list", "what is my todo list", "what's on my list",
           "shopping", "to-do" })

RECURSIVE stemAll(_)
stemAll(xs) == IF xs = <<>> THEN <<>> ELSE <<stem(Head(xs))>> \o stemAll(Tail(xs))

RECURSIVE dropStopwords(_)
dropStopwords(xs) ==
  IF xs = <<>> THEN <<>>
  ELSE (IF Head(xs) # "" /\ Head(xs) \notin STOPWORDS THEN <<Head(xs)>> ELSE <<>>)
       \o dropStopwords(Tail(xs))

queryTokens(q) == dropStopwords(stemAll(splitOn(q, SpaceChars \cup {","})))

\* the loop over qTokens in the filter callback: "true", "false", or "throw"
\* when toLowerCase is called on a content that is null
RECURSIVE tokenMatch(_, _)
tokenMatch(e, qTokens) ==
  IF qTokens = <<>> THEN "false"
  ELSE LET qt == Head(qTokens)
       IN IF \E i \in 1..Len(e.keywords) :
               LET ek == toLowerCase(e.keywords[i])
               IN includes(ek, qt) \/ includes(qt, ek)
          THEN "true"
          ELSE IF e.content.t = "null" THEN "throw"
          ELSE IF includes(toLowerCase(e.content.v), qt) THEN "true"
          ELSE tokenMatch(e, Tail(qTokens))

\* String(e.content), as RegExp.prototype.test coerces its argument
coerceToString(x) == IF x.t = "null" THEN "null" ELSE x.v

\* what queryEntries derives from the query alone: the normalized query q,
\* its tokens, and isShoppingQueryInternal(q) as the callback evaluates it
queryPlan(query) ==
  LET q == normalizeText(query)
  IN [q |-> q, qTokens |-> queryTokens(q), shopping |-> isShoppingQueryInternal(Str(q))]

\* the callback without the test of the content on the list/shopping side
entryMatchesNoContent(e, plan) ==
  IF plan.shopping
  THEN IF Len(e.items) > 0 THEN "true"
       ELSE IF Len(e.keywords) > 0 THEN "true" ELSE "false"
  ELSE tokenMatch(e, plan.qTokens)

\* the filter callback of queryEntries for one entry
entryMatches(e, plan) ==
  IF plan.shopping
  THEN IF Len(e.items) > 0 THEN "true"
       ELSE IF Len(e.keywords) > 0 THEN "true"
       ELSE IF hasSubstring(toLowerCase(coerceToString(e.content)),
                            {"buy", "add", "shopping", "supermarket", "grocery"})
            THEN "true" ELSE "false"
  ELSE tokenMatch(e, plan.qTokens)

RECURSIVE filterEntries(_, _)
filterEntries(es, plan) ==
  IF es = <<>> THEN <<>>
  ELSE (IF entryMatches(Head(es), plan) = "true" THEN <<Head(es)>> ELSE <<>>)
       \o filterEntries(Tail(es), plan)

(***************************************************************************)
(* Chat route (app/api/chat/route.ts): predicates                          *)
(***************************************************************************)
\* || between the two tests, in the place of &&
looksLikeAddIntentEitherGroup(text) ==
  IF text = "" THEN FALSE
  ELSE LET s == toLowerCase(text)
       IN \/ hasWord(s, {"add", "put", "buy", "need", "remember", "remind", "get"})
          \/ hasWord(s, {"list", "shopping", "grocery", "to-do", "todo", "task", "supermarket"})

looksLikeAddIntent(text) ==
  IF text = "" THEN FALSE
  ELSE LET s == toLowerCase(text)
       IN /\ hasWord(s, {"add", "put", "buy", "need", "remember", "remind", "get"})
          /\ hasWord(s, {"list", "shopping", "grocery", "to-do", "todo", "task", "supermarket"})

autoAddThreshold == 30

\* /[?¿]$/ with "?" alone: "¿" is not a character of a TLA+ string
looksLikeQuestion(text) ==
  \/ endsWith(text, "?")
  \/ hasWord(toLowerCase(text),
       { "what", "how", "why", "when", "where", "who", "do", "did", "does", "is",
         "are", "can", "should" })

\* the condition of the add-intent branch
addBranch(text) ==
  looksLikeAddIntent(text) \/ hasWord(toLowerCase(text), {"add", "put", "buy", "need", "remind"})

\* parsed.items.map(it => String(it).toLowerCase().trim()).filter(Boolean)
RECURSIVE lowerTrimAll(_)
lowerTrimAll(xs) ==
  IF xs = <<>> THEN <<>> ELSE <<trim(toLowerCase(Head(xs)))>> \o lowerTrimAll(Tail(xs))

llmItems(parsedItems) == filterBoolean(lowerTrimAll(parsedItems))

(***************************************************************************)
(* Bounds and inputs                                                       *)
(***************************************************************************)
\* concurrent requests
NumReq == 2

\* Date.now() runs over 0..MaxClock
MaxClock == 1

\* entries appended by direct calls of the core
MaxEntries == 2

Procs == 1..NumReq

Malformed == [t |-> "malformed", v |-> ""]

\* request bodies: the message field, absent, or a body that is not JSON
Bodies ==
  { Null, Malformed,
    Str("Show my shopping list"),
    Str(" Add Eggs and milk to my shopping list "),
    Str("What is on my to-do list?"),
    Str("what should i buy"),
    Str("How was your day"),
    Str("remind me to buy bread"),
    Str("  ") }

\* what generateText does: it rejects, or resolves with a text in which the
\* handler finds either no JSON object with an items array or such an array
LlmThrow == [ok |-> FALSE, hasItems |-> FALSE, items |-> <<>>]

LlmUnparsable == [ok |-> TRUE, hasItems |-> FALSE, items |-> <<>>]

LlmItems(its) == [ok |-> TRUE, hasItems |-> TRUE, items |-> its]

LlmReplies == { LlmThrow, LlmUnparsable, LlmItems(<<"egg", "milk">>), LlmItems(<<"Eggs ", "eggs", " ">>) }

\* arguments of direct calls of the core
CoreContents == { Null, Str(""), Str("needs milk"), Str("Buy Eggs now"), Str("Buy it") }

CoreItems == { <<>>, <<"Milk">> }

\* the (content, items) arguments of direct addEntry calls: every content
\* without items, and items with a content that names other things and with
\* no content
CoreArgs ==
  { <<c, <<>>>> : c \in CoreContents }
    \cup { <<Str("Buy Eggs now"), <<"Milk">>>>, <<Null, <<"Milk">>>> }

CoreQueries == { Null, Str("milk"), Str("egg"), Str("My shopping list?") }

\* words per input text of the pure functions
MaxWords == 2

PureWords == { "needs", "Milk,", "its", "a", "add", "eggs" }

RECURSIVE joinWords(_)
joinWords(ws) ==
  IF ws = <<>> THEN ""
  ELSE IF Len(ws) = 1 THEN ws[1]
  ELSE ws[1] \o " " \o joinWords(Tail(ws))

\* characters per input text built character by character
MaxChars == 3

\* an upper-case and a lower-case letter, two kinds of white space, a smart
\* quote and a character that normalizeText replaces
PureChars == { "A", "b", " ", "\t", "~", "!" }

RECURSIVE joinChars(_)
joinChars(cs) == IF cs = <<>> THEN "" ELSE Head(cs) \o joinChars(Tail(cs))

\* the examples of the README's table, with either apostrophe, and a text
\* with a repeated item, a stopword and a list word
ExampleTexts ==
  { "Add eggs and milk to my shopping list",
    "Add send email to professor to my to-do list",
    "Don't forget bread",
    "Don~t forget bread",
    "add eggs, Eggs and a list" }

\* null, the empty text, the texts of up to MaxWords words, the texts of
\* up to MaxChars characters and the example texts
PureInputs ==
  {Null}
    \cup { Str(t) : t \in ExampleTexts }
    \cup { Str(joinWords(ws)) : ws \in UNION { [1..n -> PureWords] : n \in 0..MaxWords } }
    \cup { Str(joinChars(cs)) : cs \in UNION { [1..n -> PureChars] : n \in 0..MaxChars } }


(***************************************************************************)
(* The pure functions on the texts of the model, computed once             *)
(***************************************************************************)
\* String(message).trim() of each request body
TextTable == [b \in Bodies |-> trim(b.v)]

\* the text the handler works on
textOf(b) == TextTable[b]

Texts == { textOf(b) : b \in { x \in Bodies : x.t = "string" } }

Contents == CoreContents \cup { Str(t) : t \in Texts } \cup { b \in Bodies : b.t = "string" }

Queries == CoreQueries \cup { Str(t) : t \in Texts }

KeywordsTable == [c \in Contents |-> extractKeywords(c)]

FallbackTable == [c \in Contents |-> fallbackExtractItems(c)]

QueryPlanTable == [x \in Queries |-> queryPlan(x)]

FallbackTableV2 == [c \in Contents |-> fallbackExtractItemsV2(c)]

keywordsOf(c) == IF c \in Contents THEN KeywordsTable[c] ELSE extractKeywords(c)

fallbackExtractItemsFromLib(c) ==
  IF c \in Contents THEN FallbackTable[c] ELSE fallbackExtractItems(c)

fallbackExtractItemsFromLibV2(c) ==
  IF c \in Contents THEN FallbackTableV2[c] ELSE fallbackExtractItemsV2(c)

queryPlanOf(x) == IF x \in Queries THEN QueryPlanTable[x] ELSE queryPlan(x)

(***************************************************************************)
(* Entry store and query engine, continued                                 *)
(***************************************************************************)
\* String(Date.now()), for each reading of the clock
IdTable == [t \in 0..MaxClock |-> ToString(t)]

idOf(t) == IdTable[t]

\* new Date().toISOString() in the first second of the epoch, for each
\* reading of the clock
IsoTable ==
  [t \in 0..MaxClock |->
     "1970-01-01T00:00:00."
       \o (IF t < 10 THEN "00" ELSE IF t < 100 THEN "0" ELSE "") \o ToString(t) \o "Z"]

toISOString(t) == IsoTable[t]

\* the Entry literal built by addEntry; t is Date.now(), t2 the later new Date()
newEntry(content, tags, items, t, t2) ==
  [ id |-> idOf(t),
    content |-> content,
    tags |-> tags,
    keywords |-> keywordsOf(content),
    items |-> lowerAll(items),
    createdAt |-> toISOString(t2) ]

\* queryEntries raises when the callback raises on some entry
queryThrows(es, query) ==
  \E i \in 1..Len(es) : entryMatches(es[i], queryPlanOf(query)) = "throw"

\* the array queryEntries returns when it does not raise
queryEntries(es, query) == filterEntries(es, queryPlanOf(query))

\* entries.reverse().filter(...) in the place of entries.filter(...)
storeAfterQueryReversed(es) == [i \in 1..Len(es) |-> es[Len(es) + 1 - i]]

\* entries.filter builds a new array: the store after queryEntries
storeAfterQuery(es) == es

\* the push loop over one entry's items
RECURSIVE pushClean(_, _)
pushClean(its, acc) ==
  IF its = <<>> THEN acc
  ELSE LET cleanItem == toLowerCase(trim(Head(its)))
       IN pushClean(Tail(its),
            IF cleanItem # "" /\ cleanItem \notin Range(acc)
            THEN Append(acc, cleanItem) ELSE acc)

RECURSIVE shoppingItemsLoop(_, _)
shoppingItemsLoop(results, acc) ==
  IF results = <<>> THEN acc
  ELSE LET r == Head(results)
       IN shoppingItemsLoop(Tail(results),
            IF Len(r.items) > 0 THEN pushClean(r.items, acc)
            ELSE pushClean(fallbackExtractItemsFromLib(Str(StringOrEmpty(r.content))), acc))

getShoppingItemsForResults(results) == shoppingItemsLoop(results, <<>>)

\* second copy: for (const it of xs) if (!items.includes(it)) items.push(it)
RECURSIVE pushNew(_, _)
pushNew(xs, acc) ==
  IF xs = <<>> THEN acc
  ELSE pushNew(Tail(xs), IF Head(xs) \in Range(acc) THEN acc ELSE Append(acc, Head(xs)))

\* second copy: the loop over r.keywords
RECURSIVE pushKeywordsV2(_, _)
pushKeywordsV2(ks, acc) ==
  IF ks = <<>> THEN acc
  ELSE LET kk == toLowerCase(stem(Head(ks)))
       IN pushKeywordsV2(Tail(ks),
            IF Len(kk) > 1 /\ kk \notin COMMON_VERBS /\ kk \notin Range(acc)
            THEN Append(acc, kk) ELSE acc)

RECURSIVE shoppingItemsLoopV2(_, _)
shoppingItemsLoopV2(results, acc) ==
  IF results = <<>> THEN acc
  ELSE LET r == Head(results)
       IN shoppingItemsLoopV2(Tail(results),
            IF Len(r.items) > 0 THEN pushNew(r.items, acc)
            ELSE pushKeywordsV2(r.keywords,
                   pushNew(fallbackExtractItemsFromLibV2(Str(StringOrEmpty(r.content))), acc)))

\* getShoppingItemsForResults of the second copy of lib/journal.ts
getShoppingItemsForResultsV2(results) == shoppingItemsLoopV2(results, <<>>)

\* the branch of POST a text takes, before the API key is looked at
branchOf(text) ==
  IF Len(text) > 0 /\ Len(text) <= autoAddThreshold /\ ~looksLikeQuestion(text) THEN "auto"
  ELSE IF addBranch(text) THEN "add"
  ELSE IF isShoppingQueryInternal(Str(text)) THEN "query"
  ELSE "default"

BranchTable == [t \in Texts |-> branchOf(t)]

(***************************************************************************)
(* State                                                                   *)
(***************************************************************************)
VARIABLES
  entries,   \* let entries: Entry[]
  now,       \* the clock Date.now() reads
  apiKey,    \* process.env.GOOGLE_GENERATIVE_AI_API_KEY is set
  pc,        \* where each POST handler is: idle, json, llm1, delay, llm2, done
  body,      \* the request body of each handler
  path,      \* the branch each handler took
  llm,       \* how the language-model call of each handler ended
  resp,      \* the response of each handler
  adds,      \* addEntry calls made by each handler
  log,       \* the entries addEntry built, in call order
  call       \* the last direct call of the core and its outcome

vars == <<entries, now, apiKey, pc, body, path, llm, resp, adds, log, call>>

NoResp == [status |-> 0, kind |-> "none", entry |-> <<>>, results |-> <<>>, shoppingItems |-> <<>>]

NoCall == [op |-> "none", arg |-> Null, again |-> FALSE, threw |-> FALSE, result |-> <<>>]

InitStore ==
  /\ entries = <<>>
  /\ now = 0
  /\ pc = [p \in Procs |-> "idle"]
  /\ body = [p \in Procs |-> Null]
  /\ path = [p \in Procs |-> "none"]
  /\ llm = [p \in Procs |-> "none"]
  /\ resp = [p \in Procs |-> NoResp]
  /\ adds = [p \in Procs |-> 0]
  /\ log = <<>>

Init == InitStore /\ call = NoCall /\ apiKey \in BOOLEAN

CoreInit == InitStore /\ call = NoCall /\ apiKey = FALSE

(***************************************************************************)
(* Actions                                                                 *)
(***************************************************************************)
\* time passes
Tick ==
  /\ now < MaxClock
  /\ now' = now + 1
  /\ UNCHANGED <<entries, apiKey, pc, body, path, llm, resp, adds, log, call>>

\* addEntry(content, tags, items) run by handler p, then the JSON response
\* of the given kind that carries the entry
saveAndRespond(p, content, items, kind) ==
  \E dt \in 0..(IF now < MaxClock THEN 1 ELSE 0) :
    LET e == newEntry(content, <<>>, items, now, now + dt)
    IN /\ entries' = unshift(entries, e)
       /\ log' = Append(log, e)
       /\ now' = now + dt
       /\ adds' = [adds EXCEPT ![p] = @ + 1]
       /\ resp' = [resp EXCEPT ![p] = [NoResp EXCEPT !.status = 200, !.kind = kind, !.entry = <<e>>]]
       /\ pc' = [pc EXCEPT ![p] = "done"]

respondOnly(p, r) ==
  /\ resp' = [resp EXCEPT ![p] = r]
  /\ pc' = [pc EXCEPT ![p] = "done"]
  /\ UNCHANGED <<entries, now, adds, log>>

\* a request arrives; handlers are numbered in order of arrival
Start(p) ==
  /\ pc[p] = "idle"
  /\ IF p = 1 THEN TRUE ELSE pc[p - 1] # "idle"
  /\ \E b \in Bodies : body' = [body EXCEPT ![p] = b]
  /\ pc' = [pc EXCEPT ![p] = "json"]
  /\ UNCHANGED <<entries, now, apiKey, path, llm, resp, adds, log, call>>

\* the catch of the outer try: req.json() rejected
RouteError(p) ==
  /\ path' = [path EXCEPT ![p] = "error"]
  /\ respondOnly(p, [NoResp EXCEPT !.status = 500, !.kind = "error"])
  /\ UNCHANGED llm

\* if (!message) return 400
RejectEmpty(p) ==
  /\ path' = [path EXCEPT ![p] = "reject"]
  /\ respondOnly(p, [NoResp EXCEPT !.status = 400, !.kind = "error"])
  /\ UNCHANGED llm

\* 1) quick auto-save of a short message that is not a question
AutoSave(p, text) ==
  /\ path' = [path EXCEPT ![p] = "auto"]
  /\ saveAndRespond(p, Str(text), fallbackExtractItemsFromLib(Str(text)), "saved")
  /\ UNCHANGED llm

\* a fallback branch that answers without calling addEntry
saveFallbackWithoutAdd(p, text) ==
  respondOnly(p, [NoResp EXCEPT !.status = 200, !.kind = "fallback"])

\* a fallback branch that saves the text as the default branch does, without items
saveFallbackNoItems(p, text) == saveAndRespond(p, Str(text), <<>>, "fallback")

\* the three places where the add branch saves what the fallback extractor finds
saveFallback(p, text) ==
  saveAndRespond(p, Str(text), fallbackExtractItemsFromLib(Str(text)), "fallback")

\* 2) add intent without an API key
AddNoKey(p, text) ==
  /\ path' = [path EXCEPT ![p] = "add"]
  /\ llm' = [llm EXCEPT ![p] = "nokey"]
  /\ saveFallback(p, text)

\* 2) add intent with an API key: generateText is called and awaited
AddCallLlm(p) ==
  /\ path' = [path EXCEPT ![p] = "add"]
  /\ pc' = [pc EXCEPT ![p] = "llm1"]
  /\ UNCHANGED <<entries, now, llm, resp, adds, log>>

\* 3) shopping / to-do query: queryEntries, then getShoppingItemsForResults
QueryBranch(p, text) ==
  /\ path' = [path EXCEPT ![p] = "query"]
  /\ IF queryThrows(entries, Str(text))
     THEN respondOnly(p, [NoResp EXCEPT !.status = 500, !.kind = "error"])
     ELSE LET results == queryEntries(entries, Str(text))
          IN /\ resp' = [resp EXCEPT ![p] =
                  [NoResp EXCEPT !.status = 200, !.kind = "found", !.results = results,
                                 !.shoppingItems = getShoppingItemsForResults(results)]]
             /\ pc' = [pc EXCEPT ![p] = "done"]
             /\ entries' = storeAfterQuery(entries)
             /\ UNCHANGED <<now, adds, log>>
  /\ UNCHANGED llm

\* 4) default: save as a general entry
DefaultSave(p, text) ==
  /\ path' = [path EXCEPT ![p] = "default"]
  /\ saveAndRespond(p, Str(text), <<>>, "saved")
  /\ UNCHANGED llm

\* the body has been read: the handler runs to its first await or to its end
Receive(p) ==
  /\ pc[p] = "json"
  /\ LET b == body[p]
         text == textOf(b)
     IN IF b.t = "malformed" THEN RouteError(p)
        ELSE IF b.t = "null" \/ b.v = "" THEN RejectEmpty(p)
        ELSE IF BranchTable[text] = "auto" THEN AutoSave(p, text)
        ELSE IF BranchTable[text] = "add"
             THEN IF apiKey THEN AddCallLlm(p) ELSE AddNoKey(p, text)
        ELSE IF BranchTable[text] = "query" THEN QueryBranch(p, text)
        ELSE DefaultSave(p, text)
  /\ UNCHANGED <<apiKey, body, call>>

\* the model answered: items are saved if the answer holds an items array,
\* else the fallback items
LlmAnswered(p, reply) ==
  LET text == textOf(body[p])
  IN IF reply.hasItems
     THEN /\ llm' = [llm EXCEPT ![p] = "items"]
          /\ saveAndRespond(p, Str(text), llmItems(reply.items), "items")
     ELSE /\ llm' = [llm EXCEPT ![p] = "unparsable"]
          /\ saveFallback(p, text)

\* callWithOneRetry, first call: an answer, or a rejection and the 600 ms delay
LlmFirst(p) ==
  /\ pc[p] = "llm1"
  /\ \E reply \in LlmReplies :
       IF reply.ok THEN LlmAnswered(p, reply)
       ELSE /\ pc' = [pc EXCEPT ![p] = "delay"]
            /\ UNCHANGED <<entries, now, llm, resp, adds, log>>
  /\ UNCHANGED <<apiKey, body, path, call>>

\* the delay is over and generateText is called again
RetryDelay(p) ==
  /\ pc[p] = "delay"
  /\ pc' = [pc EXCEPT ![p] = "llm2"]
  /\ UNCHANGED <<entries, now, apiKey, body, path, llm, resp, adds, log, call>>

\* callWithOneRetry, second call: an answer, or the catch of the handler
LlmSecond(p) ==
  /\ pc[p] = "llm2"
  /\ \E reply \in LlmReplies :
       IF reply.ok THEN LlmAnswered(p, reply)
       ELSE /\ llm' = [llm EXCEPT ![p] = "failed"]
            /\ saveFallback(p, textOf(body[p]))
  /\ UNCHANGED <<apiKey, body, path, call>>

Next ==
  \/ Tick
  \/ \E p \in Procs : Start(p)
  \/ \E p \in Procs : Receive(p)
  \/ \E p \in Procs : LlmFirst(p)
  \/ \E p \in Procs : RetryDelay(p)
  \/ \E p \in Procs : LlmSecond(p)

Spec == Init /\ [][Next]_vars

(***************************************************************************)
(* Direct calls of the core exports, one at a time                         *)
(***************************************************************************)
CoreAddEntry ==
  /\ Len(entries) < MaxEntries
  /\ \E a \in CoreArgs, dt \in 0..(IF now < MaxClock THEN 1 ELSE 0) :
       LET e == newEntry(a[1], <<>>, a[2], now, now + dt)
       IN /\ entries' = unshift(entries, e)
          /\ log' = Append(log, e)
          /\ now' = now + dt
          /\ call' = [NoCall EXCEPT !.op = "addEntry", !.arg = a[1], !.result = <<e>>]
  /\ UNCHANGED <<apiKey, pc, body, path, llm, resp, adds>>

\* again: the call before this one was queryEntries with the same query
CoreQueryEntries ==
  /\ \E q \in CoreQueries :
       LET again == call.op = "queryEntries" /\ call.arg = q
       IN call' = IF queryThrows(entries, q)
                  THEN [NoCall EXCEPT !.op = "queryEntries", !.arg = q, !.again = again,
                                      !.threw = TRUE]
                  ELSE [NoCall EXCEPT !.op = "queryEntries", !.arg = q, !.again = again,
                                      !.result = queryEntries(entries, q)]
  /\ entries' = storeAfterQuery(entries)
  /\ UNCHANGED <<now, apiKey, pc, body, path, llm, resp, adds, log>>

\* getShoppingItemsForResults on the store or on what the last query returned
\* the results argument of getShoppingItemsForResults, as the arg of a call
Results(rs) == [t |-> "entries", v |-> rs]

CoreGetShoppingItems ==
  /\ \E results \in {entries} \cup (IF call.op = "queryEntries" THEN {call.result} ELSE {}) :
       call' = [NoCall EXCEPT !.op = "getShoppingItemsForResults", !.arg = Results(results),
                              !.result = getShoppingItemsForResults(results)]
  /\ UNCHANGED <<entries, now, apiKey, pc, body, path, llm, resp, adds, log>>

\* getShoppingItemsForResults of the second copy of lib/journal.ts
CoreGetShoppingItemsV2 ==
  /\ \E results \in {entries} \cup (IF call.op = "queryEntries" THEN {call.result} ELSE {}) :
       call' = [NoCall EXCEPT !.op = "getShoppingItemsForResultsV2", !.arg = Results(results),
                              !.result = getShoppingItemsForResultsV2(results)]
  /\ UNCHANGED <<entries, now, apiKey, pc, body, path, llm, resp, adds, log>>

CoreAllEntries ==
  /\ call' = [NoCall EXCEPT !.op = "allEntries", !.result = entries]
  /\ UNCHANGED <<entries, now, apiKey, pc, body, path, llm, resp, adds, log>>

CoreNext ==
  \/ Tick
  \/ CoreAddEntry
  \/ CoreQueryEntries
  \/ CoreGetShoppingItems
  \/ CoreGetShoppingItemsV2
  \/ CoreAllEntries

CoreSpec == CoreInit /\ [][CoreNext]_vars

(***************************************************************************)
(* The pure functions applied to input texts                               *)
(***************************************************************************)
PureInit ==
  /\ InitStore
  /\ apiKey = FALSE
  /\ call \in { [NoCall EXCEPT !.op = "input", !.arg = x] : x \in PureInputs }

PureExtractKeywords ==
  /\ call' = [NoCall EXCEPT !.op = "extractKeywords", !.arg = call.arg,
                            !.result = extractKeywords(call.arg)]
  /\ UNCHANGED <<entries, now, apiKey, pc, body, path, llm, resp, adds, log>>

PureFallbackExtractItems ==
  /\ call' = [NoCall EXCEPT !.op = "fallbackExtractItems", !.arg = call.arg,
                            !.result = fallbackExtractItems(call.arg)]
  /\ UNCHANGED <<entries, now, apiKey, pc, body, path, llm, resp, adds, log>>

\* normalizeText on the input text, or on what normalizeText returned last
PureNormalizeText ==
  /\ LET again == call.op = "normalizeText"
         x == IF again THEN Str(call.result[1]) ELSE call.arg
     IN call' = [NoCall EXCEPT !.op = "normalizeText", !.arg = x, !.again = again,
                               !.result = <<normalizeText(x)>>]
  /\ UNCHANGED <<entries, now, apiKey, pc, body, path, llm, resp, adds, log>>

\* fallbackExtractItems of the second copy of lib/journal.ts
PureFallbackExtractItemsV2 ==
  /\ call' = [NoCall EXCEPT !.op = "fallbackExtractItemsV2", !.arg = call.arg,
                            !.result = fallbackExtractItemsV2(call.arg)]
  /\ UNCHANGED <<entries, now, apiKey, pc, body, path, llm, resp, adds, log>>

PureNext ==
  \/ PureNormalizeText
  \/ PureExtractKeywords
  \/ PureFallbackExtractItems
  \/ PureFallbackExtractItemsV2

PureSpec == PureInit /\ [][PureNext]_vars

(***************************************************************************)
(* Properties                                                              *)
(***************************************************************************)
isLowerCase(x) == toLowerCase(x) = x

noDuplicates(xs) == \A i, j \in 1..Len(xs) : i # j => xs[i] # xs[j]

\* C1: any two distinct entries of the store have different ids, however
\* close in time the serialized addEntry calls are
C1_UniqueIds ==
  \A i, j \in 1..Len(entries) : i # j => entries[i].id # entries[j].id

\* C2: the store is in reverse insertion order: it lists the entries that
\* addEntry built newest first
C2_NewestFirst ==
  /\ Len(entries) = Len(log)
  /\ \A i \in 1..Len(entries) : entries[i] = log[Len(log) + 1 - i]

C2_Witness ==
  /\ Len(entries) >= 2
  /\ entries[1] # entries[2]
  /\ call.op = "allEntries"
  /\ call.result = entries

\* C3: the store is append-only: every step keeps the stored entries, field
\* by field and in their order, as the tail of the store; a step that is an
\* addEntry call grows the store by exactly one entry and every other step
\* leaves it as it is
C3_AppendOnly ==
  [][ /\ Len(entries') = Len(entries) + (IF log' # log THEN 1 ELSE 0)
      /\ \A i \in 1..Len(entries) :
           entries'[i + Len(entries') - Len(entries)] = entries[i] ]_vars

C3_Witness ==
  /\ Len(entries) >= 2
  /\ call.op = "getShoppingItemsForResults"
  /\ Len(call.result) >= 1

\* C4: every element of the items of every stored entry is a lowercase,
\* non-empty string and no two elements of the items of one entry are equal
C4_ItemsWellFormed ==
  \A i \in 1..Len(entries) :
    /\ \A k \in 1..Len(entries[i].items) :
         entries[i].items[k] # "" /\ isLowerCase(entries[i].items[k])
    /\ noDuplicates(entries[i].items)

keywordIsClean(k) == k \notin STOPWORDS /\ k \notin COMMON_VERBS /\ Len(k) > 1

\* C5: no element of extractKeywords(text), and so no keyword of a stored
\* entry, is a stopword, a common verb, or a token of length 1 or less
C5_KeywordsClean ==
  /\ \A i \in 1..Len(entries) : \A k \in Range(entries[i].keywords) : keywordIsClean(k)
  /\ call.op = "extractKeywords" => \A k \in Range(call.result) : keywordIsClean(k)

\* the texts for which the query predicate is true and add-intent is false
QueryOnlyTable ==
  [t \in Texts |-> isShoppingQueryInternal(Str(t)) /\ ~looksLikeAddIntent(t)]

\* C6: a message for which the list/shopping query predicate is true and
\* the add-intent predicate is false is handled on the query path and
\* appends no entry
C6_QueryMessagesOnlyQuery ==
  \A p \in Procs :
    (pc[p] = "done" /\ body[p].t = "string" /\ body[p].v # "" /\ QueryOnlyTable[textOf(body[p])])
      => (path[p] = "query" /\ adds[p] = 0)

\* C7: a request handled on an add or default path, the short-message
\* auto-save included, calls addEntry exactly once, whatever the outcome of
\* the language-model call
C7_ExactlyOneAdd ==
  \A p \in Procs :
    /\ adds[p] <= 1
    /\ (pc[p] = "done" /\ path[p] \in {"auto", "add", "default"}) => adds[p] = 1

C7_Witness ==
  \E p, q \in Procs :
    /\ pc[p] = "done" /\ llm[p] = "failed" /\ adds[p] = 1
    /\ pc[q] = "done" /\ llm[q] = "items" /\ adds[q] = 1

\* C8: on the add path, when there is no API key, when the model call fails
\* twice, or when its answer holds no items array, the request ends with a
\* saved entry, not an error, and the items of that entry are
\* fallbackExtractItems(message), lowercased
C8_FallbackIsSaved ==
  \A p \in Procs :
    (pc[p] = "done" /\ path[p] = "add" /\ llm[p] \in {"nokey", "failed", "unparsable"})
      => /\ resp[p].status = 200
         /\ Len(resp[p].entry) = 1
         /\ resp[p].entry[1] \in Range(entries)
         /\ resp[p].entry[1].items = lowerAll(fallbackExtractItemsFromLib(body[p]))

C8_Witness ==
  \E p, q \in Procs :
    /\ pc[p] = "done" /\ llm[p] = "failed"
    /\ resp[p].entry # <<>> /\ resp[p].entry[1].items = <<"egg", "milk">>
    /\ pc[q] = "done" /\ llm[q] = "unparsable"

\* C9: every core operation completes without raising, in every reachable
\* store state, and empty or null-like text gives an empty keyword list and
\* an empty item list
C9_CoreNeverRaises ==
  /\ ~call.threw
  /\ \A i \in 1..Len(entries) :
       StringOrEmpty(entries[i].content) = "" => entries[i].keywords = <<>>
  /\ (call.op \in {"extractKeywords", "fallbackExtractItems"} /\ StringOrEmpty(call.arg) = "")
       => call.result = <<>>

\* C10: queryEntries does not change the store, and calling it twice in a
\* row with the same query returns the same entries in the same order
C10_QueryReadOnly ==
  [][ (call'.op = "queryEntries" /\ now' = now)
        => /\ entries' = entries
           /\ call'.again => (call'.result = call.result /\ call'.threw = call.threw) ]_vars

C10_Witness ==
  /\ call.op = "queryEntries"
  /\ call.again
  /\ Len(entries) >= 2
  /\ Len(call.result) >= 1
  /\ Len(call.result) < Len(entries)

\* C11: normalizeText is idempotent: normalizing a text that normalizeText
\* returned gives that text back
C11_NormalizeIdempotent ==
  (call.op = "normalizeText" /\ call.again) => call.result = <<call.arg.v>>

C11_Witness ==
  /\ call.op = "normalizeText"
  /\ call.again
  /\ call.result = <<"a'b">>

\* the words of a text, each between two spaces: every character that is
\* not a word character becomes a space, and a hyphen stays, between spaces
RECURSIVE spacedWords(_)
spacedWords(s) ==
  IF s = "" THEN " "
  ELSE (IF Head(s) \in WordChars THEN Head(s)
        ELSE IF Head(s) = "-" THEN " - " ELSE " ") \o spacedWords(Tail(s))

\* one of the words ws is a whole word of the text, letter case ignored
hasOneOf(text, ws) ==
  \E w \in ws : includes(" " \o spacedWords(toLowerCase(text)), " " \o w \o " ")

ActionVerbs == {"add", "put", "buy", "need", "remember", "remind", "get"}

ListNouns == {"list", "shopping", "grocery", "to - do", "todo", "task", "supermarket"}

BranchVerbs == {"add", "put", "buy", "need", "remind"}

BothGroupsTable == [t \in Texts |-> hasOneOf(t, ActionVerbs) /\ hasOneOf(t, ListNouns)]

BranchVerbTable == [t \in Texts |-> hasOneOf(t, BranchVerbs)]

AddIntentTable == [t \in Texts |-> looksLikeAddIntent(t)]

\* handler p has a message and has gone past the short-message auto-save
classified(p) == body[p].t = "string" /\ path[p] \in {"add", "query", "default"}

fallbackCalled == call.op \in {"fallbackExtractItems", "fallbackExtractItemsV2"}

\* C13: fallbackExtractItems("Add eggs and milk to my shopping list")
\* returns exactly ["egg", "milk"], in that order
C13_EggsAndMilk ==
  (fallbackCalled /\ call.arg = Str("Add eggs and milk to my shopping list"))
    => call.result = <<"egg", "milk">>

\* C14: fallbackExtractItems("Don't forget bread") returns exactly
\* ["bread"], with the straight apostrophe and with the curly one
C14_DontForgetBread ==
  (fallbackCalled /\ call.arg \in {Str("Don't forget bread"), Str("Don~t forget bread")})
    => call.result = <<"bread">>

\* C15: fallbackExtractItems("Add send email to professor to my to-do
\* list") returns exactly one item, the phrase "send email to professor"
C15_SendEmailToProfessor ==
  (fallbackCalled /\ call.arg = Str("Add send email to professor to my to-do list"))
    => call.result = <<"send email to professor">>

\* C16: the list fallbackExtractItems returns, from a pattern or from the
\* token scan, has no two equal elements, and every element is lowercase,
\* longer than 1 character, and neither a stopword nor a common verb
C16_FallbackItemsClean ==
  fallbackCalled
    => /\ noDuplicates(call.result)
       /\ \A k \in 1..Len(call.result) :
            /\ isLowerCase(call.result[k])
            /\ Len(call.result[k]) > 1
            /\ call.result[k] \notin STOPWORDS
            /\ call.result[k] \notin COMMON_VERBS

C16_Witness ==
  /\ call.op = "fallbackExtractItems"
  /\ call.arg = Str("add eggs, Eggs and a list")
  /\ call.result = <<"egg">>

\* buy, add, shopping, supermarket, grocery
ShoppingWords == {"buy", "add", "shopping", "supermarket", "grocery"}

\* an entry with an item, or with a keyword, or whose content holds one of
\* the shopping words, letter case ignored
listed(e) ==
  \/ Len(e.items) > 0
  \/ Len(e.keywords) > 0
  \/ e.content.t = "string" /\ \E w \in ShoppingWords : includes(toLowerCase(e.content.v), w)

ShoppingQueryTable == [q \in CoreQueries |-> isShoppingQueryInternal(q)]

\* C17: when the query satisfies the list/shopping predicate, queryEntries
\* returns, in store order, exactly the stored entries that have an item,
\* or a keyword, or a content that matches one of the shopping words
C17_ShoppingQueryListing ==
  (call.op = "queryEntries" /\ ShoppingQueryTable[call.arg])
    => /\ ~call.threw
       /\ call.result = SelectSeq(entries, listed)

C17_Witness ==
  /\ call.op = "queryEntries"
  /\ call.arg = Str("My shopping list?")
  /\ Len(entries) >= 2
  /\ Len(call.result) = 1
  /\ call.result[1].items = <<>>
  /\ call.result[1].keywords = <<>>

\* fallbackExtractItems(content) of the first or of the second copy of
\* lib/journal.ts, an absent content read as the empty text
fallbackOfCopy(c, copy) ==
  IF copy = 1 THEN fallbackExtractItemsFromLib(Str(StringOrEmpty(c)))
  ELSE fallbackExtractItemsFromLibV2(Str(StringOrEmpty(c)))

\* what each result contributes, in result order: its cached items when it
\* has some, else fallbackExtractItems(content)
RECURSIVE contributions(_, _)
contributions(results, copy) ==
  IF results = <<>> THEN <<>>
  ELSE (IF Len(Head(results).items) > 0 THEN Head(results).items
        ELSE fallbackOfCopy(Head(results).content, copy))
       \o contributions(Tail(results), copy)

\* C18: getShoppingItemsForResults(results) returns, without duplicates and
\* each at the place of its first occurrence, the cached items of the
\* results that have items and fallbackExtractItems(content) of the results
\* that have none, in result order, and nothing else: no keyword is added
C18_ShoppingItemsFromItemsOrContent ==
  /\ call.op = "getShoppingItemsForResults"
       => call.result = uniqueInOrder(contributions(call.arg.v, 1), <<>>)
  /\ call.op = "getShoppingItemsForResultsV2"
       => call.result = uniqueInOrder(contributions(call.arg.v, 2), <<>>)

\* the handlers that took a path that saves: auto-save, add intent, default
savers == { p \in Procs : path[p] \in {"auto", "add", "default"} }

\* C19: whatever the interleaving of the handlers, no append is lost or
\* duplicated: the store is the sequence of the entries the addEntry calls
\* built, the last call first, and when every handler has finished it holds
\* exactly one entry per handler that took a saving path, the entry that
\* handler answered with
C19_NoLostAppend ==
  /\ Len(entries) = Len(log)
  /\ \A i \in 1..Len(entries) : entries[i] = log[Len(log) + 1 - i]
  /\ (\A p \in Procs : pc[p] = "done")
       => /\ Len(entries) = Cardinality(savers)
          /\ \E f \in [savers -> 1..Len(entries)] :
               /\ \A p, q \in savers : p # q => f[p] # f[q]
               /\ \A p \in savers : resp[p].entry = <<entries[f[p]]>>

\* the handler of the first request waited for the language model and saved
\* after the handler of the second, within the same millisecond
C19_Witness ==
  /\ \A p \in Procs : pc[p] = "done"
  /\ llm[1] = "failed"
  /\ path[2] = "auto"
  /\ Len(entries) >= 2
  /\ resp[1].entry = <<entries[1]>>
  /\ resp[2].entry = <<entries[2]>>
  /\ entries[1].id = entries[2].id

====
